---- MODULE Spec2Model ----
(***************************************************************************)
(* State-machine model of ephMPS.mps.mp.MatrixProduct: the chain of site   *)
(* tensors, its quantum-number (qn) table, the boundary index qnidx, the   *)
(* truncation threshold, and the canonicalise()/compress() sweeps.         *)
(*                                                                         *)
(* Indices.  The code counts sites 0..site_num-1 and bonds 0..site_num.    *)
(* TLA+ sequences start at 1, so site i is mp[i+1] and bond i is qn[i+1];  *)
(* the operators Site(_) and Bond(_) take the code's index.                *)
(*                                                                         *)
(* Tensors.  A site tensor is kept as what the class reads from it: its    *)
(* left and right bond dimension (shape[0], shape[-1]) and the outcome of  *)
(* check_lortho() / check_rortho().  The physical dimension pdim_prod is   *)
(* PDim at every site.                                                     *)
(*                                                                         *)
(* Optional values.  A field that may be None is a sequence of length at   *)
(* most one: << >> is None and <<v>> is v.  qn is << >> when None (a real  *)
(* table has site_num+1 >= 2 entries).                                     *)
(***************************************************************************)
EXTENDS Integers, Sequences, FiniteSets, TLC

\* ---------------------------------------------------------------- bounds
MaxSites == 3
MaxBond == 2
PDim == 2

\* --------------------------------------------------------- input domains
\* labels the factorization may attach to a new bond
QnVals == {1}
\* singular values the factorization may return
SigmaVals == {0, 3, 4}

None == << >>
Some(v) == <<v>>
Val(o) == o[1]

Min(a, b) == IF a < b THEN a ELSE b

\* a threshold value: a finite rational n/d (d > 0), NaN, or +infinity
Num(n, d) == [kind |-> "num", n |-> n, d |-> d]
NaN == [kind |-> "nan", n |-> 0, d |-> 1]
Inf == [kind |-> "inf", n |-> 1, d |-> 1]
\* values handed to the threshold setter
ThresholdInputs ==
  {Num(0 - 1, 1), Num(0, 1), Num(1, 1), Num(4, 5), Num(3, 2), NaN, Inf}

VARIABLES site_num, mp, qn, qnidx, qntot, threshold, pc, todo, visited, stage, err

vars == <<site_num, mp, qn, qnidx, qntot, threshold, pc, todo, visited, stage, err>>

Site(i) == mp[i + 1]
Bond(i) == qn[i + 1]

\* ------------------------------------------------------------ tensors
\* a tensor of shape (l, PDim, r) can be left-orthogonal only if r <= l*PDim
\* and right-orthogonal only if l <= PDim*r
Feasible(t) ==
  /\ t.lo => t.r <= t.l * PDim
  /\ t.ro => t.l <= PDim * t.r

Tensor(l, r, lo, ro) == [l |-> l, r |-> r, lo |-> lo, ro |-> ro]

\* chains of n tensors with matching bond dimensions and boundary bonds 1
Chains(n) ==
  {c \in [1..n -> {t \in [l : 1..MaxBond, r : 1..MaxBond, lo : BOOLEAN, ro : BOOLEAN] :
                     Feasible(t)}] :
     /\ c[1].l = 1
     /\ c[n].r = 1
     /\ \A i \in 1..(n - 1) : c[i].r = c[i + 1].l}

\* bond_dims property
bond_dims ==
  IF site_num > 0
    THEN [i \in 1..(site_num + 1) |->
            IF i <= site_num THEN mp[i].l ELSE mp[site_num].r]
    ELSE << >>

Zeros(dim) == [j \in 1..dim |-> 0]

\* ------------------------------------------------------------ properties
is_left_canon == qnidx = Some(site_num - 1)
is_right_canon == qnidx = Some(0)

\* range(a, b, -1) and range(a, b) as sequences of code indices
RangeDown(a, b) == IF a > b THEN [j \in 1..(a - b) |-> a - j + 1] ELSE << >>
RangeUp(a, b) == IF b > a THEN [j \in 1..(b - a) |-> a + j - 1] ELSE << >>

iter_idx_list ==
  IF is_left_canon THEN RangeDown(site_num - 1, 0) ELSE RangeUp(0, site_num - 1)

\* faulty variant: the loop runs over every tensor instead of all but the last
check_left_canonical_all == \A i \in 0..(site_num - 1) : Site(i).lo

check_left_canonical == \A i \in 0..(site_num - 2) : Site(i).lo
check_right_canonical == \A i \in 1..(site_num - 1) : Site(i).ro

\* ------------------------------------------------------------ threshold
\* the comparisons of the setter and of compress() on a threshold value
LeZero(v) == v.kind = "num" /\ v.n <= 0
EqOne(v) == v.kind = "num" /\ v.n = v.d
GtZero(v) == (v.kind = "num" /\ v.n > 0) \/ v.kind = "inf"
LtOne(v) == v.kind = "num" /\ v.n < v.d

\* a chain as from_raw_list builds it from a non-empty raw list (in a subclass
\* that defines is_mpo and _get_sigmaqn, which append needs): the tensors of
\* the list, no QN state, the default threshold
Init ==
  /\ site_num \in 1..MaxSites
  /\ mp \in Chains(site_num)
  /\ qn = None
  /\ qnidx = None
  /\ qntot = None
  /\ threshold = Num(1, 1000)
  /\ pc = "idle"
  /\ todo = << >>
  /\ visited = << >>
  /\ stage = None
  /\ err = "none"

\* ------------------------------------------------------------ outcomes
Idle == pc = "idle"

\* the call returns normally to the caller
Return ==
  /\ pc' = "idle"
  /\ todo' = << >>
  /\ visited' = << >>
  /\ stage' = None
  /\ err' = "none"

\* the call raises e: nothing is rolled back, nothing more is written
Raise(e) ==
  /\ pc' = "idle"
  /\ todo' = << >>
  /\ visited' = << >>
  /\ stage' = None
  /\ err' = e
  /\ UNCHANGED <<site_num, mp, qn, qnidx, qntot, threshold>>

\* ------------------------------------------------------------ qn set-up
build_empty_qn ==
  /\ Idle
  /\ qntot' = Some(0)
  /\ qnidx' = Some(0)
  /\ qn' = [i \in 1..Len(bond_dims) |-> Zeros(bond_dims[i])]
  /\ Return
  /\ UNCHANGED <<site_num, mp, threshold>>

build_none_qn ==
  /\ Idle
  /\ qntot' = None
  /\ qnidx' = None
  /\ qn' = None
  /\ Return
  /\ UNCHANGED <<site_num, mp, threshold>>

clear_qn ==
  /\ Idle
  /\ qntot' = Some(0)
  /\ qn' = [i \in 1..Len(bond_dims) |-> Zeros(bond_dims[i])]
  /\ Return
  /\ UNCHANGED <<site_num, mp, qnidx, threshold>>

\* ------------------------------------------------------------ threshold
SetThreshold(v) ==
  /\ Idle
  /\ IF LeZero(v) THEN Raise("ValueError")
     ELSE IF EqOne(v) THEN Raise("ValueError")
     ELSE /\ threshold' = v
          /\ Return
          /\ UNCHANGED <<site_num, mp, qn, qnidx, qntot>>

\* ------------------------------------------------------------ move_qnidx
\* q with every label of the bonds lo..hi (code indices) replaced by tot - label
FlipRange(q, lo, hi, tot) ==
  [i \in 1..Len(q) |->
     IF lo <= i - 1 /\ i - 1 <= hi
       THEN [j \in 1..Len(q[i]) |-> tot - q[i][j]]
       ELSE q[i]]

\* faulty variant: the first loop starts at qnidx instead of qnidx + 1
MoveQn_FromBoundary(q, src, tot, dst) ==
  LET q1 == FlipRange(q, src, Len(q) - 2, tot)
  IN FlipRange(q1, dst + 1, Len(q) - 2, tot)

\* the qn table move_qnidx(dst) leaves, from boundary src and total tot
MoveQn(q, src, tot, dst) ==
  LET q1 == FlipRange(q, src + 1, Len(q) - 2, tot)
  IN FlipRange(q1, dst + 1, Len(q) - 2, tot)

\* the table and the boundary move_qnidx(dst) leaves
Moved(q, src, tot, dst) == [qn |-> MoveQn(q, src, tot, dst), qnidx |-> dst]

\* None + 1, len(None) and None - label raise TypeError; with qntot None the
\* call gets through only when neither loop has a bond to flip, and then the
\* total is not read
move_qnidx(dst) ==
  /\ Idle
  /\ IF qnidx = None \/ qn = None
       THEN Raise("TypeError")
     ELSE IF qntot = None /\ (Val(qnidx) + 1 <= Len(qn) - 2 \/ dst + 1 <= Len(qn) - 2)
       THEN Raise("TypeError")
     ELSE LET tot == IF qntot = None THEN 0 ELSE Val(qntot)
              res == Moved(qn, Val(qnidx), tot, dst)
          IN /\ qn' = res.qn
             /\ qnidx' = Some(res.qnidx)
             /\ Return
             /\ UNCHANGED <<site_num, mp, qntot, threshold>>

\* ------------------------------------------------------------ sweeps
\* mt.any() can be false only for a tensor that is orthogonal in no direction
MayBeZero(t) == ~t.lo /\ ~t.ro

\* faulty variant: a missing table is not noticed
GetBigQnError_NoTable(idx) ==
  IF qn = None THEN "none"
  ELSE IF Len(Bond(idx)) # Site(idx).l \/ Len(Bond(idx + 1)) # Site(idx).r
    THEN "AssertionError"
  ELSE "none"

\* the way _get_big_qn(idx) fails, "none" when it returns
GetBigQnError(idx) ==
  IF qn = None THEN "TypeError"
  ELSE IF Len(Bond(idx)) # Site(idx).l \/ Len(Bond(idx + 1)) # Site(idx).r
    THEN "AssertionError"
  ELSE "none"

\* shape of the matrix handed to the factorization: r_combine / l_combine
MtRows(idx) == IF is_left_canon THEN Site(idx).l ELSE Site(idx).l * PDim
MtCols(idx) == IF is_left_canon THEN PDim * Site(idx).r ELSE Site(idx).r

\* the new bond dimension Csvd(full_matrices=False) may return
CsvdRanks(idx) == 1..Min(Min(MtRows(idx), MtCols(idx)), MaxBond)

\* np.tensordot(..., axes=1) in _update_ms needs the shared bond to match
TensordotError(idx) ==
  IF is_left_canon
    THEN Site(idx - 1).r # Site(idx).l
    ELSE Site(idx).r # Site(idx + 1).l

\* faulty variant: the factors are swapped, the site gets the non-isometric one
UpdateMsMp_Swapped(idx, m, nb, c) ==
  IF is_left_canon
    THEN [mp EXCEPT ![idx] = Tensor(Site(idx - 1).l, m, nb[1], nb[2]),
                    ![idx + 1] = Tensor(m, (PDim * Site(idx).r) \div PDim, c, FALSE)]
    ELSE [mp EXCEPT ![idx + 2] = Tensor(m, Site(idx + 1).r, nb[1], nb[2]),
                    ![idx + 1] = Tensor((Site(idx).l * PDim) \div PDim, m, FALSE, c)]

\* chain and table _update_ms(idx, ...) leaves with m_trunc = m and new labels
\* lab; nb is the check outcome of the neighbour after absorbing the
\* non-isometric factor, c the other check outcome of the isometric site
UpdateMsMp(idx, m, nb, c) ==
  IF is_left_canon
    THEN [mp EXCEPT ![idx] = Tensor(Site(idx - 1).l, m, nb[1], nb[2]),
                    ![idx + 1] = Tensor(m, (PDim * Site(idx).r) \div PDim, c, TRUE)]
    ELSE [mp EXCEPT ![idx + 2] = Tensor(m, Site(idx + 1).r, nb[1], nb[2]),
                    ![idx + 1] = Tensor((Site(idx).l * PDim) \div PDim, m, TRUE, c)]

\* faulty variant: the ascending sweep writes the labels of the bond left of the site
UpdateMsQn_LeftBond(idx, m, lab) ==
  IF is_left_canon
    THEN [qn EXCEPT ![idx + 1] = SubSeq(lab, 1, m)]
    ELSE [qn EXCEPT ![idx + 1] = SubSeq(lab, 1, m)]

UpdateMsQn(idx, m, lab) ==
  IF is_left_canon
    THEN [qn EXCEPT ![idx + 1] = SubSeq(lab, 1, m)]
    ELSE [qn EXCEPT ![idx + 2] = SubSeq(lab, 1, m)]

\* the isometric factor has m >= 1 orthonormal rows or columns, so the
\* assert ret_mpsi.any() that precedes the write of site idx holds
_update_ms(idx, m, lab) ==
  \E nb \in BOOLEAN \X BOOLEAN, c \in BOOLEAN :
    /\ mp' = UpdateMsMp(idx, m, nb, c)
    /\ \A i \in 1..site_num : Feasible(mp'[i])
    /\ qn' = UpdateMsQn(idx, m, lab)

\* faulty variant: the boundary is not flipped
_switch_domain_keep ==
  qnidx' = qnidx

_switch_domain ==
  qnidx' = IF is_left_canon THEN Some(0) ELSE Some(site_num - 1)

\* entry of canonicalise(): the index range is fixed from qnidx
canonicalise_start ==
  /\ Idle
  /\ pc' = "canonicalise"
  /\ todo' = iter_idx_list
  /\ visited' = << >>
  /\ stage' = None
  /\ err' = "none"
  /\ UNCHANGED <<site_num, mp, qn, qnidx, qntot, threshold>>

\* one site of canonicalise(): the asserts, _get_big_qn, Csvd(QR=True) with
\* new bond dimension k and labels lab, and _update_ms without truncation
canonicalise_step ==
  /\ pc = "canonicalise"
  /\ todo # << >>
  /\ LET idx == Head(todo)
     IN \/ MayBeZero(Site(idx)) /\ Raise("AssertionError")
        \/ GetBigQnError(idx) # "none" /\ Raise(GetBigQnError(idx))
        \/ GetBigQnError(idx) = "none" /\ TensordotError(idx) /\ Raise("ValueError")
        \/ /\ GetBigQnError(idx) = "none"
           /\ ~TensordotError(idx)
           /\ \E k \in CsvdRanks(idx) : \E lab \in [1..k -> QnVals] :
                _update_ms(idx, k, lab)
           /\ todo' = Tail(todo)
           /\ visited' = Append(visited, idx)
           /\ UNCHANGED <<site_num, qnidx, qntot, threshold, pc, stage, err>>

\* ------------------------------------------------------------ compress
\* spectra Csvd may return for a non-zero matrix: k descending non-negative values
SigmaSeqs(k) ==
  {sg \in [1..k -> SigmaVals] :
     /\ sg[1] > 0
     /\ \A i \in 1..(k - 1) : sg[i] >= sg[i + 1]}

RECURSIVE SumSq(_)
SumSq(sg) == IF sg = << >> THEN 0 ELSE Head(sg) * Head(sg) + SumSq(Tail(sg))

\* faulty variant: >= in place of >
NormedGe(s, nsq, t) == s * s * t.d * t.d >= t.n * t.n * nsq

\* s / norm > t for s >= 0, t = n/d > 0 and norm = sqrt(nsq); with nsq = 0 the
\* quotient is NaN and the comparison is false
NormedGt(s, nsq, t) == s * s * t.d * t.d > t.n * t.n * nsq

\* np.count_nonzero(normed_sigma > threshold)
RECURSIVE CountGt(_, _, _)
CountGt(sg, nsq, t) ==
  IF sg = << >> THEN 0
  ELSE (IF NormedGt(Head(sg), nsq, t) THEN 1 ELSE 0) + CountGt(Tail(sg), nsq, t)

\* faulty variant: a rank of 0 is clamped to 1
m_trunc_clamped(sg, t) ==
  LET m == IF LtOne(t)
             THEN CountGt(sg, SumSq(sg), t)
             ELSE Min(t.n \div t.d, Len(sg))
  IN IF m = 0 THEN 1 ELSE m

\* m_trunc of compress() for a finite threshold t with 0 < t, t # 1
m_trunc(sg, t) ==
  IF LtOne(t)
    THEN CountGt(sg, SumSq(sg), t)
    ELSE Min(t.n \div t.d, Len(sg))

\* entry of compress(): the optional canonical check, then the index range
compress_start(check_canonical) ==
  /\ Idle
  /\ IF check_canonical
        /\ ~(IF is_left_canon THEN check_left_canonical ELSE check_right_canonical)
       THEN Raise("AssertionError")
       ELSE /\ pc' = "compress"
            /\ todo' = iter_idx_list
            /\ visited' = << >>
            /\ stage' = None
            /\ err' = "none"
            /\ UNCHANGED <<site_num, mp, qn, qnidx, qntot, threshold>>

\* one site of compress(), up to the return of Csvd
compress_factorize ==
  /\ pc = "compress"
  /\ todo # << >>
  /\ stage = None
  /\ LET idx == Head(todo)
     IN \/ MayBeZero(Site(idx)) /\ Raise("AssertionError")
        \/ GetBigQnError(idx) # "none" /\ Raise(GetBigQnError(idx))
        \/ /\ GetBigQnError(idx) = "none"
           /\ \E k \in CsvdRanks(idx) : \E lab \in [1..k -> QnVals] :
                \E sg \in SigmaSeqs(k) :
                  stage' = Some([lab |-> lab, sigma |-> sg])
           /\ UNCHANGED <<site_num, mp, qn, qnidx, qntot, threshold, pc, todo,
                          visited, err>>

\* the rest of the site: the truncation policy and _update_ms
compress_truncate ==
  /\ pc = "compress"
  /\ stage # None
  /\ LET idx == Head(todo)
         sg == Val(stage).sigma
     IN IF ~(GtZero(threshold) /\ ~EqOne(threshold))
          THEN Raise("AssertionError")
        ELSE IF threshold.kind = "inf"
          THEN Raise("OverflowError")
        ELSE IF m_trunc(sg, threshold) = 0
          THEN Raise("AssertionError")
        ELSE IF TensordotError(idx)
          THEN Raise("ValueError")
        ELSE /\ _update_ms(idx, m_trunc(sg, threshold), Val(stage).lab)
             /\ todo' = Tail(todo)
             /\ visited' = Append(visited, idx)
             /\ stage' = None
             /\ UNCHANGED <<site_num, qnidx, qntot, threshold, pc, err>>

\* the loop is exhausted: _switch_domain() and the return of the sweep
sweep_end ==
  /\ pc \in {"canonicalise", "compress"}
  /\ todo = << >>
  /\ stage = None
  /\ _switch_domain
  /\ Return
  /\ UNCHANGED <<site_num, mp, qn, qntot, threshold>>

Next ==
  \/ build_empty_qn
  \/ build_none_qn
  \/ clear_qn
  \/ \E dst \in 0..(site_num - 1) : move_qnidx(dst)
  \/ canonicalise_start
  \/ canonicalise_step
  \/ \E check_canonical \in BOOLEAN : compress_start(check_canonical)
  \/ compress_factorize
  \/ compress_truncate
  \/ sweep_end

Spec == Init /\ [][Next]_vars

\* the threshold and the sweeps it steers
NextThreshold ==
  \/ build_empty_qn
  \/ \E v \in ThresholdInputs : SetThreshold(v)
  \/ canonicalise_start
  \/ canonicalise_step
  \/ \E check_canonical \in BOOLEAN : compress_start(check_canonical)
  \/ compress_factorize
  \/ compress_truncate
  \/ sweep_end

SpecThreshold == Init /\ [][NextThreshold]_vars

\* move_qnidx as a function of the table, the boundary and the total
MoveQnVals == {0, 1}
QnTotVals == {0 - 1, 0, 3}

\* label tables whose vectors have the bond dimensions of the chain c
QnTables(c) ==
  {q \in [1..(Len(c) + 1) -> UNION {[1..d -> MoveQnVals] : d \in 1..MaxBond}] :
     \A i \in 1..(Len(c) + 1) :
       Len(q[i]) = (IF i <= Len(c) THEN c[i].l ELSE c[Len(c)].r)}

InitMove ==
  /\ site_num \in 1..MaxSites
  /\ mp \in {c \in Chains(site_num) : \A i \in 1..site_num : ~c[i].lo /\ ~c[i].ro}
  /\ qn \in QnTables(mp)
  /\ qnidx \in {Some(i) : i \in 0..(site_num - 1)}
  /\ qntot \in {Some(t) : t \in QnTotVals}
  /\ threshold = Num(1, 1000)
  /\ pc = "idle"
  /\ todo = << >>
  /\ visited = << >>
  /\ stage = None
  /\ err = "none"

NextMove == \E dst \in 0..(site_num - 1) : move_qnidx(dst)

SpecMove == InitMove /\ [][NextMove]_vars

\* ================================================================ claims
Canonical == {Some(0), Some(site_num - 1)}
Sweeping == pc \in {"canonicalise", "compress"}
Descending == [j \in 1..(site_num - 1) |-> site_num - j]
Ascending == [j \in 1..(site_num - 1) |-> j - 1]
LeftOrthoBelow(b) == \A i \in 0..(site_num - 1) : i < b => mp[i + 1].lo
RightOrthoAbove(b) == \A i \in 0..(site_num - 1) : i > b => mp[i + 1].ro

\* C1: a canonicalise() that starts with qnidx 0 or site_num-1 and returns
\* leaves every tensor below the new qnidx left-orthogonal and every tensor
\* above it right-orthogonal, so the canonical check of the new direction passes.
C1_CanonicaliseOrthogonal ==
  [][(pc = "canonicalise" /\ pc' = "idle" /\ err' = "none" /\ qnidx \in Canonical)
       => /\ qnidx' \in Canonical
          /\ LeftOrthoBelow(Val(qnidx))'
          /\ RightOrthoAbove(Val(qnidx))'
          /\ (qnidx' = Some(site_num - 1) => check_left_canonical')
          /\ (qnidx' = Some(0) => check_right_canonical')]_vars

\* a three-site canonicalise() from the left-canonical state has swept sites
\* 2 and 1 and is about to return
C1_Witness ==
  /\ pc = "canonicalise"
  /\ site_num = 3
  /\ is_left_canon
  /\ todo = << >>
  /\ visited = <<2, 1>>

\* C2: a completed sweep that starts at qnidx = site_num-1 has visited
\* site_num-1, ..., 1 and ends with qnidx = 0; one that starts at qnidx = 0
\* (site_num > 1) has visited 0, ..., site_num-2 and ends with qnidx =
\* site_num-1; so a sweep from a canonical qnidx ends in the other one.
C2_SweepOrderAndFlip ==
  [][(Sweeping /\ pc' = "idle" /\ err' = "none")
       => /\ (qnidx = Some(site_num - 1)
                => visited = Descending /\ qnidx' = Some(0))
          /\ (qnidx = Some(0) /\ site_num > 1
                => visited = Ascending /\ qnidx' = Some(site_num - 1))
          /\ (qnidx \in Canonical => qnidx' \in Canonical)]_vars

\* a three-site compress() from the right-canonical state has visited 0, 1
C2_Witness ==
  /\ pc = "compress"
  /\ site_num = 3
  /\ is_right_canon
  /\ todo = << >>
  /\ visited = <<0, 1>>

\* C4: a sweep invoked while qnidx is an index other than 0 and site_num-1
\* sweeps no site.
C4_NoSweepFromMidBoundary ==
  (Sweeping /\ qnidx # None /\ qnidx \notin Canonical) => visited = << >>

\* C8: whenever the qn table exists it has site_num+1 label vectors, each as
\* long as the bond dimension of the tensors on either side, and the two
\* boundary bonds have dimension 1 and still carry the label build_empty_qn
\* gave them.
C8_QnMatchesBonds ==
  qn # None =>
    /\ Len(qn) = site_num + 1
    /\ \A i \in 0..site_num :
         /\ (i >= 1 => Len(qn[i + 1]) = mp[i].r)
         /\ (i <= site_num - 1 => Len(qn[i + 1]) = mp[i + 1].l)
    /\ qn[1] = <<0>>
    /\ qn[site_num + 1] = <<0>>

\* an inner bond of dimension 2 was written by a sweep and then flipped by
\* move_qnidx
C8_Witness ==
  /\ Idle
  /\ err = "none"
  /\ qn # None
  /\ site_num = 3
  /\ qn[2] = <<0 - 1, 0 - 1>>
  /\ qn[3] = <<1>>

\* the canonical form compress() checks for the current direction
CanonFormHolds ==
  IF qnidx = Some(site_num - 1)
    THEN \A i \in 1..(site_num - 1) : mp[i].lo
    ELSE \A i \in 2..site_num : mp[i].ro

\* C9: compress(check_canonical=True) on a chain that fails the canonical
\* check of its direction raises with every tensor, label vector and qnidx
\* as before, and otherwise goes on to sweep.
C9_CheckBeforeSweep ==
  [][compress_start(TRUE)
       => IF CanonFormHolds
            THEN pc' = "compress"
            ELSE /\ pc' = "idle"
                 /\ err' = "AssertionError"
                 /\ mp' = mp
                 /\ qn' = qn
                 /\ qnidx' = qnidx]_vars

\* compress() has just refused a left-canonical three-site chain with labels
C9_Witness ==
  /\ Idle
  /\ err = "AssertionError"
  /\ site_num = 3
  /\ qn # None
  /\ is_left_canon
  /\ ~CanonFormHolds

C3_ThresholdValidInSweep ==
  Sweeping =>
    \/ threshold.kind = "inf"
    \/ threshold.kind = "num" /\ threshold.n > 0 /\ threshold.n # threshold.d

\* the rank the truncation policy prescribes for spectrum sg and a finite
\* threshold t = n/d
SquareSum(sg) ==
  LET RECURSIVE Upto(_)
      Upto(i) == IF i = 0 THEN 0 ELSE sg[i] * sg[i] + Upto(i - 1)
  IN Upto(Len(sg))

PolicyRank(sg, t) ==
  IF t.n < t.d
    THEN Cardinality({i \in DOMAIN sg :
                        sg[i] * sg[i] * t.d * t.d > t.n * t.n * SquareSum(sg)})
    ELSE LET fl == CHOOSE f \in 0..t.n : f * t.d <= t.n /\ t.n < (f + 1) * t.d
         IN IF fl < Len(sg) THEN fl ELSE Len(sg)

FiniteThreshold ==
  threshold.kind = "num" /\ threshold.n > 0 /\ threshold.n # threshold.d

C7_ZeroRankRaises ==
  [][(pc = "compress" /\ stage # None /\ FiniteThreshold
        /\ PolicyRank(Val(stage).sigma, threshold) = 0)
       => /\ pc' = "idle"
          /\ err' = "AssertionError"
          /\ mp' = mp
          /\ qn' = qn
          /\ qnidx' = qnidx]_vars

\* the second site of a sweep has a flat spectrum that threshold 4/5 cuts to 0
C7_Witness ==
  /\ pc = "compress"
  /\ stage # None
  /\ threshold = Num(4, 5)
  /\ Val(stage).sigma = <<4, 4>>
  /\ Len(visited) = 1

\* C5: from any boundary A, move_qnidx(B) followed by move_qnidx(A) gives
\* back the label table and the boundary A.
C5_MoveInvolution ==
  (qn # None /\ qnidx # None /\ qntot # None) =>
    \A B \in 0..(site_num - 1) :
      LET A == Val(qnidx)
          there == Moved(qn, A, Val(qntot), B)
          back == Moved(there.qn, there.qnidx, Val(qntot), A)
      IN back.qn = qn /\ back.qnidx = A

\* a move has replaced labels of an inner bond by total minus label
C5_Witness ==
  /\ Idle
  /\ err = "none"
  /\ site_num = 3
  /\ qntot = Some(3)
  /\ qnidx = Some(1)
  /\ qn[2] = <<3, 2>>
  /\ qn[3] = <<0, 1>>
====
